---- MODULE Spec2Model ----
(***************************************************************************)
(* Position and order execution engine of high_freq_scalping_tool.         *)
(*                                                                         *)
(* Python floats are modelled as exact rationals <<n, d>> in lowest terms  *)
(* (d > 0), so every product, quotient and comparison of the source is     *)
(* computed as the source computes it over the reals; IEEE rounding is not *)
(* modelled.  <<0, 0>> stands for Python's None.                           *)
(***************************************************************************)
EXTENDS Integers, Sequences, FiniteSets, TLC

VARIABLES cfg, cash, positions, pos, history, last, now,
          pc, signals, transactions, equity_curve, dates

vars == <<cfg, cash, positions, pos, history, last, now,
          pc, signals, transactions, equity_curve, dates>>

(***************************************************************************)
(* Bounds of the model.                                                    *)
(***************************************************************************)
MaxCalls == 2
MaxBars == 3

(***************************************************************************)
(* Float arithmetic (exact).                                               *)
(***************************************************************************)
RECURSIVE GCD(_, _)
GCD(a, b) == IF b = 0 THEN a ELSE GCD(b, a % b)

AbsInt(a) == IF a < 0 THEN 0 - a ELSE a

Norm(n, d) ==
    LET g == GCD(AbsInt(n), AbsInt(d))
        sg == IF d < 0 THEN 0 - 1 ELSE 1
    IN  <<(sg * n) \div g, (sg * d) \div g>>

Q(n, d) == Norm(n, d)
N(i) == <<i, 1>>
None == <<0, 0>>
Zero == <<0, 1>>
One == <<1, 1>>

RAdd(a, b) ==
    LET g == GCD(a[2], b[2])
    IN  Norm(a[1] * (b[2] \div g) + b[1] * (a[2] \div g), (a[2] \div g) * b[2])
RSub(a, b) == RAdd(a, <<0 - b[1], b[2]>>)
RMul(a, b) ==
    LET g1 == GCD(AbsInt(a[1]), b[2])
        g2 == GCD(AbsInt(b[1]), a[2])
    IN  <<(a[1] \div g1) * (b[1] \div g2), (a[2] \div g2) * (b[2] \div g1)>>
RDiv(a, b) == RMul(a, IF b[1] < 0 THEN <<0 - b[2], 0 - b[1]>> ELSE <<b[2], b[1]>>)
RLt(a, b) ==
    LET g == GCD(a[2], b[2]) IN a[1] * (b[2] \div g) < b[1] * (a[2] \div g)
RLe(a, b) ==
    LET g == GCD(a[2], b[2]) IN a[1] * (b[2] \div g) <= b[1] * (a[2] \div g)
RGt(a, b) == RLt(b, a)
RGe(a, b) == RLe(b, a)
RAbs(a) == <<AbsInt(a[1]), a[2]>>

(***************************************************************************)
(* sofware/executor.py : class Position                                    *)
(***************************************************************************)
Position(position_type, amount, entry_price, entry_date, stop_loss, take_profit) ==
    [type |-> position_type, amount |-> amount, entry_price |-> entry_price,
     entry_date |-> entry_date, stop_loss |-> stop_loss,
     take_profit |-> take_profit, closed |-> FALSE, exit_price |-> None,
     exit_date |-> 0, profit_loss |-> Zero]

epsilon == <<1, 1000000>>

\* the take-profit of a short tested against the bar's high
check_exit_conditions_short_take_on_high(p, high_price, low_price) ==
    IF p.closed THEN FALSE
    ELSE IF p.type = "long"
         THEN (p.stop_loss # None /\ RLe(low_price, RAdd(p.stop_loss, epsilon)))
              \/ (p.take_profit # None
                  /\ RGe(high_price, RSub(p.take_profit, epsilon)))
    ELSE IF p.type = "short"
         THEN (p.stop_loss # None /\ RGe(high_price, RSub(p.stop_loss, epsilon)))
              \/ (p.take_profit # None
                  /\ RLe(high_price, RAdd(p.take_profit, epsilon)))
    ELSE FALSE

check_exit_conditions(p, high_price, low_price) ==
    IF p.closed THEN FALSE
    ELSE IF p.type = "long"
         THEN (p.stop_loss # None /\ RLe(low_price, RAdd(p.stop_loss, epsilon)))
              \/ (p.take_profit # None
                  /\ RGe(high_price, RSub(p.take_profit, epsilon)))
    ELSE IF p.type = "short"
         THEN (p.stop_loss # None /\ RGe(high_price, RSub(p.stop_loss, epsilon)))
              \/ (p.take_profit # None
                  /\ RLe(low_price, RAdd(p.take_profit, epsilon)))
    ELSE FALSE

\* the two sides exchanged
profit_loss_swapped(position_type, entry_price, exit_price, amount) ==
    IF position_type = "short" THEN RMul(RSub(exit_price, entry_price), amount)
    ELSE IF position_type = "long"
         THEN RMul(RSub(entry_price, exit_price), amount)
    ELSE Zero

profit_loss_of(position_type, entry_price, exit_price, amount) ==
    IF position_type = "long" THEN RMul(RSub(exit_price, entry_price), amount)
    ELSE IF position_type = "short"
         THEN RMul(RSub(entry_price, exit_price), amount)
    ELSE Zero

\* the parentheses of the difference dropped: exit - entry * amount
Position_close_unparenthesised(p, exit_price, exit_date) ==
    [p EXCEPT !.exit_price = exit_price, !.exit_date = exit_date,
              !.closed = TRUE,
              !.profit_loss = RSub(exit_price, RMul(p.entry_price, p.amount))]

Position_close(p, exit_price, exit_date) ==
    [p EXCEPT !.exit_price = exit_price, !.exit_date = exit_date,
              !.closed = TRUE,
              !.profit_loss = IF p.type \in {"long", "short"}
                              THEN profit_loss_of(p.type, p.entry_price,
                                                  exit_price, p.amount)
                              ELSE p.profit_loss]

(***************************************************************************)
(* sofware/executor.py : class TradingExecutor.  The executor's fields are *)
(* carried in a record s = [cash, positions, pos, history]: pos is the     *)
(* heap of Position objects ever created (index = object identity) and     *)
(* positions is the list self.positions of references into it.             *)
(***************************************************************************)
TradingExecutor(initial_cash) ==
    [cash |-> initial_cash, positions |-> <<>>, pos |-> <<>>, history |-> <<>>]

get_total_portfolio_value(s, current_price) ==
    LET RECURSIVE position_value(_)
        position_value(i) ==
            IF i = 0 THEN Zero
            ELSE LET p == s.pos[s.positions[i]]
                 IN  IF p.type = "long"
                     THEN RAdd(position_value(i - 1),
                               RMul(RSub(current_price, p.entry_price), p.amount))
                     ELSE IF p.type = "short"
                     THEN RAdd(position_value(i - 1),
                               RMul(RSub(p.entry_price, current_price), p.amount))
                     ELSE position_value(i - 1)
    IN  RAdd(s.cash, position_value(Len(s.positions)))

\* sofware/utils.py (and software/utils.py): the Position Sizer
calculate_size(price, equity, stop_loss_pct, risk_per_trade) ==
    LET atr_stop_loss_dollar == RMul(stop_loss_pct, price)
        risk_amount == RMul(equity, risk_per_trade)
    IN  IF RGt(atr_stop_loss_dollar, risk_amount) THEN RDiv(equity, price)
        ELSE RDiv(risk_amount, atr_stop_loss_dollar)

\* the risk-sized quantity taken from the initial capital
risk_position_size_from_initial_cash(s, c, price, stop_loss_pct) ==
    RDiv(RMul(c.initial_cash, c.risk_per_trade), RMul(stop_loss_pct, price))

\* position_size = risk_amount / atr_stop_loss_dollar (executor.py:202-212)
risk_position_size(s, c, price, stop_loss_pct) ==
    RDiv(RMul(get_total_portfolio_value(s, price), c.risk_per_trade),
         RMul(stop_loss_pct, price))

\* margin of the risk-sized order (executor.py:221-234)
first_margin_required(s, c, position_type, price, stop_loss_pct) ==
    LET adjusted_price == IF position_type = "long"
                          THEN RMul(price, RAdd(One, c.slippage_pct))
                          ELSE RMul(price, RSub(One, c.slippage_pct))
        total_cost == RMul(RMul(adjusted_price,
                                risk_position_size(s, c, price, stop_loss_pct)),
                           RAdd(One, c.transaction_cost))
    IN  RDiv(total_cost, c.leverage)

\* the transaction cost left out of the reduced quantity
reduced_position_size_without_cost(s, c, price) ==
    RDiv(RMul(s.cash, c.leverage), price)

\* the reduced quantity computed from all available cash (executor.py:242-244)
reduced_position_size(s, c, price) ==
    RDiv(RMul(s.cash, c.leverage), RMul(price, RAdd(One, c.transaction_cost)))

\* the second size check (executor.py:248-250) left out
open_position_any_size(s, c, position_type, price, date, stop_loss_pct, take_profit_pct) ==
    IF RLe(stop_loss_pct, Zero) \/ RLe(take_profit_pct, Zero) THEN s
    ELSE IF RMul(stop_loss_pct, price) = Zero THEN s  \* ZeroDivisionError, swallowed
    ELSE
    LET size0 == risk_position_size(s, c, price, stop_loss_pct) IN
    IF RLe(size0, Zero) THEN s
    ELSE IF position_type \notin {"long", "short"} THEN s
    ELSE
    LET stop_loss == IF position_type = "long"
                     THEN RMul(price, RSub(One, stop_loss_pct))
                     ELSE RMul(price, RAdd(One, stop_loss_pct))
        take_profit == IF position_type = "long"
                       THEN RMul(price, RAdd(One, take_profit_pct))
                       ELSE RMul(price, RSub(One, take_profit_pct))
        margin0 == first_margin_required(s, c, position_type, price, stop_loss_pct)
        reduce == RGt(margin0, s.cash)
        position_size == IF reduce THEN reduced_position_size(s, c, price)
                         ELSE size0
        margin_required ==
            IF reduce
            THEN RDiv(RMul(RMul(price, position_size),
                           RAdd(One, c.transaction_cost)), c.leverage)
            ELSE margin0
    IN  IF FALSE THEN s
        ELSE [cash |-> RSub(s.cash, margin_required),
              pos |-> Append(s.pos, Position(position_type, position_size, price,
                                             date, stop_loss, take_profit)),
              positions |-> Append(s.positions, Len(s.pos) + 1),
              history |-> Append(s.history,
                                 [action |-> "open", position_type |-> position_type,
                                  price |-> price, amount |-> position_size,
                                  date |-> date])]

open_position(s, c, position_type, price, date, stop_loss_pct, take_profit_pct) ==
    IF RLe(stop_loss_pct, Zero) \/ RLe(take_profit_pct, Zero) THEN s
    ELSE IF RMul(stop_loss_pct, price) = Zero THEN s  \* ZeroDivisionError, swallowed
    ELSE
    LET size0 == risk_position_size(s, c, price, stop_loss_pct) IN
    IF RLe(size0, Zero) THEN s
    ELSE IF position_type \notin {"long", "short"} THEN s
    ELSE
    LET stop_loss == IF position_type = "long"
                     THEN RMul(price, RSub(One, stop_loss_pct))
                     ELSE RMul(price, RAdd(One, stop_loss_pct))
        take_profit == IF position_type = "long"
                       THEN RMul(price, RAdd(One, take_profit_pct))
                       ELSE RMul(price, RSub(One, take_profit_pct))
        margin0 == first_margin_required(s, c, position_type, price, stop_loss_pct)
        reduce == RGt(margin0, s.cash)
        position_size == IF reduce THEN reduced_position_size(s, c, price)
                         ELSE size0
        margin_required ==
            IF reduce
            THEN RDiv(RMul(RMul(price, position_size),
                           RAdd(One, c.transaction_cost)), c.leverage)
            ELSE margin0
    IN  IF RLe(position_size, Zero) THEN s
        ELSE [cash |-> RSub(s.cash, margin_required),
              pos |-> Append(s.pos, Position(position_type, position_size, price,
                                             date, stop_loss, take_profit)),
              positions |-> Append(s.positions, Len(s.pos) + 1),
              history |-> Append(s.history,
                                 [action |-> "open", position_type |-> position_type,
                                  price |-> price, amount |-> position_size,
                                  date |-> date])]

\* the closed position left in the list
ListRemove_nothing(list, x) == list

\* list.remove: drops the first occurrence; on a missing element the
\* ValueError is swallowed by close_position's except clause.
ListRemove(list, x) ==
    IF \E i \in 1..Len(list) : list[i] = x
    THEN LET k == CHOOSE i \in 1..Len(list) :
                      list[i] = x /\ \A j \in 1..(i - 1) : list[j] # x
         IN  SubSeq(list, 1, k - 1) \o SubSeq(list, k + 1, Len(list))
    ELSE list

close_adjusted_price(c, position_type, price) ==
    IF position_type = "long" THEN RMul(price, RSub(One, c.slippage_pct))
    ELSE RMul(price, RAdd(One, c.slippage_pct))

\* the close left out of history
close_position_without_record(s, c, id, price, date) ==
    LET p == s.pos[id]
        adjusted_price == close_adjusted_price(c, p.type, price)
        proceeds == RMul(RMul(adjusted_price, p.amount),
                         RSub(One, c.transaction_cost))
    IN  [cash |-> RAdd(s.cash, proceeds),
         pos |-> [s.pos EXCEPT ![id] = Position_close(p, adjusted_price, date)],
         history |-> s.history,
         positions |-> ListRemove(s.positions, id)]

close_position(s, c, id, price, date) ==
    LET p == s.pos[id]
        amount == p.amount
    IN  IF p.type \notin {"long", "short"} THEN s
        ELSE
        LET adjusted_price == close_adjusted_price(c, p.type, price)
            proceeds == RMul(RMul(adjusted_price, amount),
                             RSub(One, c.transaction_cost))
            closed == Position_close(p, adjusted_price, date)
        IN  [cash |-> RAdd(s.cash, proceeds),
             pos |-> [s.pos EXCEPT ![id] = closed],
             history |-> Append(s.history,
                                [action |-> "close", position_type |-> p.type,
                                 price |-> adjusted_price, amount |-> amount,
                                 date |-> date, profit_loss |-> closed.profit_loss]),
             positions |-> ListRemove(s.positions, id)]

\* for position in self.positions[:] (ids is the copy taken at loop entry)
RECURSIVE check_positions_from(_, _, _, _, _, _, _, _)
check_positions_from(s, c, ids, i, price, date, high_price, low_price) ==
    IF i > Len(ids) THEN s
    ELSE IF check_exit_conditions(s.pos[ids[i]], high_price, low_price)
         THEN check_positions_from(close_position(s, c, ids[i], price, date),
                                   c, ids, i + 1, price, date, high_price, low_price)
         ELSE check_positions_from(s, c, ids, i + 1, price, date,
                                   high_price, low_price)

check_positions(s, c, price, date, high_price, low_price) ==
    check_positions_from(s, c, s.positions, 1, price, date, high_price, low_price)

\* for position in [p for p in self.positions if p.type == side]: close it
RECURSIVE close_all_from(_, _, _, _, _, _)
close_all_from(s, c, ids, i, price, date) ==
    IF i > Len(ids) THEN s
    ELSE close_all_from(close_position(s, c, ids[i], price, date),
                        c, ids, i + 1, price, date)

positions_of_type(s, side) ==
    SelectSeq(s.positions, LAMBDA id : s.pos[id].type = side)

signal_side(signal) ==
    IF signal = 1 THEN "long" ELSE IF signal = 0 - 1 THEN "short" ELSE "none"

\* the positions of the opposite side left open
state_before_entry_without_flatten(s, c, signal, price, date, high_price, low_price) ==
    check_positions(s, c, price, date, high_price, low_price)

\* the opposite side flattened from the list read before the exit check
state_before_entry_stale_list(s, c, signal, price, date, high_price, low_price) ==
    LET s1 == check_positions(s, c, price, date, high_price, low_price)
    IN  IF signal = 1
        THEN close_all_from(s1, c, positions_of_type(s, "short"), 1, price, date)
        ELSE IF signal = 0 - 1
        THEN close_all_from(s1, c, positions_of_type(s, "long"), 1, price, date)
        ELSE s1

\* state in which execute_signal reaches its `if not any(...)` test: the exit
\* check has run and the positions of the opposite side have been closed
state_before_entry(s, c, signal, price, date, high_price, low_price) ==
    LET s1 == check_positions(s, c, price, date, high_price, low_price)
    IN  IF signal = 1
        THEN close_all_from(s1, c, positions_of_type(s1, "short"), 1, price, date)
        ELSE IF signal = 0 - 1
        THEN close_all_from(s1, c, positions_of_type(s1, "long"), 1, price, date)
        ELSE s1

\* the signal handled first and the exit check run after it
execute_signal_entry_first(s, c, signal, price, date, high_price, low_price, atr_stop_loss, atr_take_profit) ==
    LET s1 == IF signal \in {1, 0 - 1}
              THEN close_all_from(s, c, positions_of_type(s, IF signal = 1
                                                                 THEN "short"
                                                                 ELSE "long"),
                                  1, price, date)
              ELSE s
        s2 == IF signal \in {1, 0 - 1}
                 /\ positions_of_type(s1, signal_side(signal)) = <<>>
              THEN open_position(s1, c, signal_side(signal), price, date,
                                 RDiv(atr_stop_loss, price),
                                 RDiv(atr_take_profit, price))
              ELSE s1
    IN  check_positions(s2, c, price, date, high_price, low_price)

\* the entry made before the positions of the opposite side are closed
execute_signal_open_before_flatten(s, c, signal, price, date, high_price, low_price, atr_stop_loss, atr_take_profit) ==
    LET s1 == check_positions(s, c, price, date, high_price, low_price)
        s2 == IF signal \in {1, 0 - 1}
                 /\ positions_of_type(s1, signal_side(signal)) = <<>>
              THEN open_position(s1, c, signal_side(signal), price, date,
                                 RDiv(atr_stop_loss, price),
                                 RDiv(atr_take_profit, price))
              ELSE s1
    IN  IF signal \in {1, 0 - 1}
        THEN close_all_from(s2, c, positions_of_type(s2, IF signal = 1
                                                          THEN "short"
                                                          ELSE "long"),
                            1, price, date)
        ELSE s2

\* `else` in the place of `elif signal == -1`
execute_signal_else_short(s, c, signal, price, date, high_price, low_price, atr_stop_loss, atr_take_profit) ==
    LET s1 == check_positions(s, c, price, date, high_price, low_price)
        side == IF signal = 1 THEN "long" ELSE "short"
        other == IF signal = 1 THEN "short" ELSE "long"
        s2 == close_all_from(s1, c, positions_of_type(s1, other), 1, price, date)
    IN  IF positions_of_type(s2, side) = <<>>
        THEN open_position(s2, c, side, price, date,
                           RDiv(atr_stop_loss, price), RDiv(atr_take_profit, price))
        ELSE s2

\* the exit check run once more after the signal is handled
execute_signal_exit_check_last(s, c, signal, price, date, high_price, low_price, atr_stop_loss, atr_take_profit) ==
    LET s2 == state_before_entry(s, c, signal, price, date, high_price, low_price)
        s3 == IF signal \in {1, 0 - 1}
                 /\ positions_of_type(s2, signal_side(signal)) = <<>>
              THEN open_position(s2, c, signal_side(signal), price, date,
                                 RDiv(atr_stop_loss, price),
                                 RDiv(atr_take_profit, price))
              ELSE s2
    IN  check_positions(s3, c, price, date, high_price, low_price)

execute_signal(s, c, signal, price, date, high_price, low_price, atr_stop_loss, atr_take_profit) ==
    LET s2 == state_before_entry(s, c, signal, price, date, high_price, low_price)
    IN  IF signal \in {1, 0 - 1} /\ positions_of_type(s2, signal_side(signal)) = <<>>
        THEN open_position(s2, c, signal_side(signal), price, date,
                           RDiv(atr_stop_loss, price), RDiv(atr_take_profit, price))
        ELSE s2

(***************************************************************************)
(* Inputs.                                                                 *)
(***************************************************************************)
Sides == {"long", "short"}
Signals == {1, 0 - 1, 0}
\* with a value that is none of the three
AnySignals == Signals \cup {2}

Bar(close, high, low, atr_sl, atr_tp) ==
    [Close |-> N(close), High |-> N(high), Low |-> N(low),
     ATR_Stop_Loss |-> N(atr_sl), ATR_Take_Profit |-> N(atr_tp)]

Bars == {Bar(100, 101, 99, 5, 10), Bar(100, 102, 94, 5, 10),
         Bar(80, 96, 80, 4, 8), Bar(125, 125, 104, 5, 10)}

Config(initial_cash, transaction_cost, leverage, slippage_pct, risk_per_trade) ==
    [initial_cash |-> initial_cash, transaction_cost |-> transaction_cost,
     leverage |-> leverage, slippage_pct |-> slippage_pct,
     risk_per_trade |-> risk_per_trade]

Frictions == {<<Zero, Zero>>, <<Q(1, 4), Zero>>, <<Q(1, 2), Q(1, 2)>>}
Risks == {<<1, Q(1, 100)>>, <<1, Q(1, 10)>>, <<2, Q(1, 10)>>}

Configs == {Config(N(1000), f[1], N(r[1]), f[2], r[2]) :
                f \in Frictions, r \in Risks}

Pcts == {Q(1, 20), Q(1, 5)}
OpenPrices == {N(100), N(80)}

(***************************************************************************)
(* The calls of the sofware TradingExecutor API.  last records the call    *)
(* just made and what the executor looked like when it was made.           *)
(***************************************************************************)
Exec == [cash |-> cash, positions |-> positions, pos |-> pos, history |-> history]

Call(op, signal, position_type, price, high_price, low_price, stop_loss_pct, take_profit_pct, target, s0, sOpen) ==
    [op |-> op, signal |-> signal, position_type |-> position_type,
     price |-> price, high_price |-> high_price, low_price |-> low_price,
     stop_loss_pct |-> stop_loss_pct, take_profit_pct |-> take_profit_pct,
     target |-> target,
     cash_before |-> s0.cash, positions_before |-> s0.positions,
     npos_before |-> Len(s0.pos), nhist_before |-> Len(s0.history),
     \* the executor as open_position found it (s0 itself for a direct call)
     open_cash |-> sOpen.cash, open_positions |-> sOpen.positions,
     open_nhist |-> Len(sOpen.history),
     open_equity |-> get_total_portfolio_value(sOpen, price),
     open_reduced |->
        /\ position_type \in Sides
        /\ RGt(stop_loss_pct, Zero)
        /\ RGt(first_margin_required(sOpen, cfg, position_type, price,
                                     stop_loss_pct), sOpen.cash)]

Become(s) ==
    /\ cash' = s.cash
    /\ positions' = s.positions
    /\ pos' = s.pos
    /\ history' = s.history

InitExecutor ==
    /\ cfg \in Configs
    /\ cash = cfg.initial_cash
    /\ positions = <<>>
    /\ pos = <<>>
    /\ history = <<>>
    /\ last = [op |-> "init", signal |-> 0, position_type |-> "none",
               price |-> Zero, high_price |-> Zero, low_price |-> Zero,
               stop_loss_pct |-> Zero, take_profit_pct |-> Zero, target |-> 0,
               cash_before |-> cfg.initial_cash, positions_before |-> <<>>,
               npos_before |-> 0, nhist_before |-> 0,
               open_cash |-> cfg.initial_cash, open_positions |-> <<>>,
               open_nhist |-> 0, open_equity |-> cfg.initial_cash,
               open_reduced |-> FALSE]
    /\ now = 0
    /\ signals = <<>>
    /\ transactions = <<>>
    /\ equity_curve = <<>>
    /\ dates = <<>>

Init ==
    /\ InitExecutor
    /\ pc = "api"

OpenPositionCall(position_type, price, stop_loss_pct, take_profit_pct) ==
    /\ pc = "api"
    /\ now < MaxCalls
    /\ now' = now + 1
    /\ \E s \in {open_position(Exec, cfg, position_type, price, now + 1,
                               stop_loss_pct, take_profit_pct)} : Become(s)
    /\ last' = Call("open_position", 0, position_type, price, price, price,
                    stop_loss_pct, take_profit_pct, 0, Exec, Exec)
    /\ UNCHANGED <<cfg, pc, signals, transactions, equity_curve, dates>>

ClosePositionCall(i, price) ==
    /\ pc = "api"
    /\ now < MaxCalls
    /\ i \in 1..Len(positions)
    /\ now' = now + 1
    /\ \E s \in {close_position(Exec, cfg, positions[i], price, now + 1)} :
           Become(s)
    /\ last' = Call("close_position", 0, "none", price, price, price,
                    Zero, Zero, positions[i], Exec, Exec)
    /\ UNCHANGED <<cfg, pc, signals, transactions, equity_curve, dates>>

CheckPositionsCall(b) ==
    /\ pc = "api"
    /\ now < MaxCalls
    /\ positions # <<>>
    /\ now' = now + 1
    /\ \E s \in {check_positions(Exec, cfg, b.Close, now + 1, b.High, b.Low)} :
           Become(s)
    /\ last' = Call("check_positions", 0, "none", b.Close, b.High, b.Low,
                    Zero, Zero, 0, Exec, Exec)
    /\ UNCHANGED <<cfg, pc, signals, transactions, equity_curve, dates>>

ExecuteSignalCall(signal, b) ==
    /\ pc = "api"
    /\ now < MaxCalls
    /\ now' = now + 1
    /\ \E s \in {execute_signal(Exec, cfg, signal, b.Close, now + 1, b.High,
                                b.Low, b.ATR_Stop_Loss, b.ATR_Take_Profit)} :
           Become(s)
    /\ \E s2 \in {state_before_entry(Exec, cfg, signal, b.Close, now + 1,
                                     b.High, b.Low)} :
           last' = Call("execute_signal", signal, signal_side(signal), b.Close,
                        b.High, b.Low, RDiv(b.ATR_Stop_Loss, b.Close),
                        RDiv(b.ATR_Take_Profit, b.Close), 0, Exec, s2)
    /\ UNCHANGED <<cfg, pc, signals, transactions, equity_curve, dates>>

Next ==
    \/ \E t \in Sides, p \in OpenPrices, sl \in Pcts :
           OpenPositionCall(t, p, sl, RAdd(sl, sl))
    \/ \E i \in 1..MaxCalls, p \in OpenPrices : ClosePositionCall(i, p)
    \/ \E b \in Bars : CheckPositionsCall(b)
    \/ \E sg \in AnySignals, b \in Bars : ExecuteSignalCall(sg, b)

Spec == Init /\ [][Next]_vars

(***************************************************************************)
(* sofware/tasks.py : execute_trades.  The loop body is one step; signals  *)
(* is the part of signals.sort_index() the loop has consumed so far (the   *)
(* row index is the bar's date), so the frame and its length are inputs.   *)
(***************************************************************************)
Row(index, signal, b) ==
    [index |-> index, Signal |-> signal, Close |-> b.Close, High |-> b.High,
     Low |-> b.Low, ATR_Stop_Loss |-> b.ATR_Stop_Loss,
     ATR_Take_Profit |-> b.ATR_Take_Profit]

\* tasks.py:201-205
record_transaction(tx, hist) ==
    IF hist # <<>> /\ (tx = <<>> \/ hist[Len(hist)] # tx[Len(tx)])
    THEN Append(tx, hist[Len(hist)])
    ELSE tx

InitTrades ==
    /\ InitExecutor
    /\ pc = "loop"

TradeBar(row) ==
    /\ pc = "loop"
    /\ now < MaxBars
    /\ row.index = now + 1
    /\ now' = now + 1
    /\ signals' = Append(signals, row)
    /\ \E s \in {execute_signal(Exec, cfg, row.Signal, row.Close, row.index,
                                row.High, row.Low, row.ATR_Stop_Loss,
                                row.ATR_Take_Profit)} :
           /\ Become(s)
           /\ transactions' = record_transaction(transactions, s.history)
           /\ equity_curve' =
                  Append(equity_curve, get_total_portfolio_value(s, row.Close))
    /\ dates' = Append(dates, row.index)
    /\ \E s2 \in {state_before_entry(Exec, cfg, row.Signal, row.Close, row.index,
                                     row.High, row.Low)} :
           last' = Call("execute_signal", row.Signal, signal_side(row.Signal),
                        row.Close, row.High, row.Low,
                        RDiv(row.ATR_Stop_Loss, row.Close),
                        RDiv(row.ATR_Take_Profit, row.Close), 0, Exec, s2)
    /\ UNCHANGED <<cfg, pc>>

TradesReturn ==
    /\ pc = "loop"
    /\ pc' = "done"
    /\ UNCHANGED <<cfg, cash, positions, pos, history, last, now, signals,
                   transactions, equity_curve, dates>>

NextTrades ==
    \/ \E sg \in Signals, b \in Bars : TradeBar(Row(now + 1, sg, b))
    \/ TradesReturn

SpecTrades == InitTrades /\ [][NextTrades]_vars

(***************************************************************************)
(* Properties of the sofware TradingExecutor.                              *)
(***************************************************************************)
Created == Len(pos) > last.npos_before
Opened == last.op \in {"open_position", "execute_signal"} /\ Created
IsOpen(id) == \E i \in 1..Len(positions) : positions[i] = id
ClosedIds == {id \in 1..Len(pos) : pos[id].closed}
CloseRecords == {i \in 1..Len(history) : history[i].action = "close"}

C2_PositionsAreOpen ==
    /\ \A id \in 1..Len(pos) : pos[id].closed <=> ~IsOpen(id)
    /\ \A i, j \in 1..Len(positions) : positions[i] = positions[j] => i = j
    /\ Cardinality(CloseRecords) = Cardinality(ClosedIds)

\* a position closed and removed while another one is held
C2_Witness ==
    /\ ClosedIds # {}
    /\ positions # <<>>
    /\ \A id \in ClosedIds : ~IsOpen(id)

\* C4: with slippage_pct = 0 and transaction_cost = 0, a position opened at
\* price p and closed by the next call at the same price p has a realized pnl
\* of exactly 0, on the position and in the 'close' record.
C4_RoundTripIsZero ==
    ( /\ last.op = "close_position"
      /\ cfg.slippage_pct = Zero
      /\ cfg.transaction_cost = Zero
      /\ pos[last.target].entry_date = now - 1
      /\ pos[last.target].entry_price = last.price )
    => /\ pos[last.target].closed
       /\ pos[last.target].profit_loss = Zero
       /\ history[Len(history)].action = "close"
       /\ history[Len(history)].profit_loss = Zero

\* a leveraged round trip of a fractional amount
C4_Witness ==
    /\ last.op = "close_position"
    /\ cfg.slippage_pct = Zero
    /\ cfg.transaction_cost = Zero
    /\ cfg.leverage = N(2)
    /\ pos[last.target].entry_date = now - 1
    /\ pos[last.target].entry_price = last.price
    /\ pos[last.target].amount # One
    /\ pos[last.target].profit_loss = Zero

\* The scenario of C7: execute_signal is called on a bar whose low is 94
\* while the long `id` (entry 100, stop 95) is open.
StopScenario(id) ==
    /\ last.op = "execute_signal"
    /\ last.low_price = N(94)
    /\ \E i \in 1..Len(last.positions_before) : last.positions_before[i] = id
    /\ pos[id].type = "long"
    /\ pos[id].entry_price = N(100)
    /\ pos[id].stop_loss = N(95)

\* the exit check closed `id` at exit_price before the signal was interpreted
ClosedBeforeEntry(id, exit_price) ==
    /\ pos[id].closed
    /\ pos[id].exit_date = now
    /\ pos[id].exit_price = exit_price
    /\ ~IsOpen(id)
    /\ \A i \in 1..Len(last.open_positions) : last.open_positions[i] # id
    /\ \E k \in (last.nhist_before + 1)..last.open_nhist :
           /\ history[k].action = "close"
           /\ history[k].position_type = "long"
           /\ history[k].price = exit_price
           /\ history[k].amount = pos[id].amount
    /\ \A k \in (last.nhist_before + 1)..last.open_nhist :
           history[k].action = "close"
    /\ (/\ last.signal = 1
        /\ \A i \in 1..Len(last.open_positions) :
               pos[last.open_positions[i]].type # "long") => Created
    /\ Created =>
           /\ Len(pos) # id
           /\ history[Len(history)].action = "open"
           /\ Len(history) = last.open_nhist + 1

RECURSIVE ProceedsOfCloses(_, _)
ProceedsOfCloses(k1, k2) ==
    IF k1 > k2 THEN Zero
    ELSE RAdd(RMul(RMul(history[k1].price, history[k1].amount),
                   RSub(One, cfg.transaction_cost)),
              ProceedsOfCloses(k1 + 1, k2))

\* C17: when execute_signal(+1) opens a long, every position that was open
\* (the shorts in particular) has been closed first: the 'close' records of
\* the call precede its 'open' record, which is the last one, and the long
\* is sized from the cash as it is after those closes (risk-sized, or
\* reduced to all of that cash); symmetric for -1.
C17_FlattenThenOpen ==
    (pc = "api" /\ last.op = "execute_signal" /\ last.signal \in {1, 0 - 1}
     /\ Created) =>
        LET side == signal_side(last.signal)
            n == Len(history)
            cash_after == RAdd(last.cash_before,
                               ProceedsOfCloses(last.nhist_before + 1, n - 1))
            risk_size == RDiv(RMul(cash_after, cfg.risk_per_trade),
                              RMul(last.stop_loss_pct, last.price))
            adjusted == RMul(last.price,
                             IF side = "long" THEN RAdd(One, cfg.slippage_pct)
                             ELSE RSub(One, cfg.slippage_pct))
            margin == RDiv(RMul(RMul(adjusted, risk_size),
                                RAdd(One, cfg.transaction_cost)), cfg.leverage)
            size == IF RGt(margin, cash_after)
                    THEN RDiv(RMul(cash_after, cfg.leverage),
                              RMul(last.price, RAdd(One, cfg.transaction_cost)))
                    ELSE risk_size
        IN  /\ \A i \in 1..Len(last.positions_before) :
                   /\ pos[last.positions_before[i]].closed
                   /\ pos[last.positions_before[i]].exit_date = now
            /\ n - 1 - last.nhist_before = Len(last.positions_before)
            /\ \A k \in (last.nhist_before + 1)..(n - 1) :
                   history[k].action = "close"
            /\ history[n].action = "open"
            /\ history[n].position_type = side
            /\ history[n].amount = size
            /\ positions = <<Len(pos)>>
            /\ pos[Len(pos)].type = side
            /\ pos[Len(pos)].amount = size

\* a +1 signal met an open short that no exit level had closed, closed it
\* and opened a long
C17_Witness ==
    /\ pc = "api"
    /\ last.op = "execute_signal"
    /\ last.signal = 1
    /\ Created
    /\ Len(last.positions_before) = 1
    /\ pos[last.positions_before[1]].type = "short"
    /\ pos[last.positions_before[1]].closed
    /\ ~check_exit_conditions([pos[last.positions_before[1]]
                                  EXCEPT !.closed = FALSE],
                              last.high_price, last.low_price)
    /\ pos[Len(pos)].type = "long"
    /\ history[Len(history) - 1].action = "close"
    /\ history[Len(history) - 1].position_type = "short"
    /\ cash # last.cash_before

\* C19: no position is closed twice: a closed position is never touched
\* again, and every step adds as many 'close' records as it closes positions,
\* so that there is one 'close' record per closed position.
C19_ClosedAtMostOnce ==
    [][/\ \A id \in 1..Len(pos) : pos[id].closed => pos'[id] = pos[id]
       /\ Cardinality(CloseRecords') - Cardinality(CloseRecords)
              = Cardinality(ClosedIds' \ ClosedIds)
       /\ Cardinality(CloseRecords') = Cardinality(ClosedIds')]_vars

\* a -1 signal on a bar that stops a long out: the exit check closes the
\* long, the flattening of the longs that follows finds none, a short opens
C19_Witness ==
    /\ pc = "api"
    /\ last.op = "execute_signal"
    /\ last.signal = 0 - 1
    /\ Len(last.positions_before) = 1
    /\ pos[last.positions_before[1]].type = "long"
    /\ check_exit_conditions([pos[last.positions_before[1]]
                                 EXCEPT !.closed = FALSE],
                             last.high_price, last.low_price)
    /\ pos[last.positions_before[1]].closed
    /\ Len(history) = last.nhist_before + 2
    /\ Created
    /\ pos[Len(pos)].type = "short"

\* C20: an open_position call that creates a position adds one element to
\* positions and one 'open' record to history and decreases cash; a
\* close_position call removes one element from positions, appends one
\* 'close' record carrying the position's profit_loss and changes cash; no
\* step modifies or removes a record of history.
C20_OneRecordPerOpenAndClose ==
    [][/\ Len(history') >= Len(history)
       /\ SubSeq(history', 1, Len(history)) = history
       /\ (pc = "api" /\ last'.op = "open_position" /\ Len(pos') > Len(pos)) =>
              /\ positions' = Append(positions, Len(pos'))
              /\ Len(history') = Len(history) + 1
              /\ history'[Len(history')].action = "open"
              /\ RLt(cash', cash)
       /\ (pc = "api" /\ last'.op = "close_position") =>
              /\ Len(positions') = Len(positions) - 1
              /\ \A i \in 1..Len(positions') : positions'[i] # last'.target
              /\ Len(history') = Len(history) + 1
              /\ history'[Len(history')].action = "close"
              /\ history'[Len(history')].profit_loss
                     = pos'[last'.target].profit_loss
              /\ cash' # cash]_vars

\* a position opened by one call and closed at another price by the next
C20_Witness ==
    /\ pc = "api"
    /\ last.op = "close_position"
    /\ Len(history) = 2
    /\ history[1].action = "open"
    /\ history[2].action = "close"
    /\ history[2].profit_loss # Zero
    /\ positions = <<>>
    /\ pos[1].closed

\* C23: execute_signal with a signal other than +1 and -1 opens nothing:
\* positions is what is left of the list it had before, in the same order,
\* and the records added to history are the 'close' records of the
\* positions the exit check closed.
C23_NoEntryWithoutSignal ==
    (pc = "api" /\ last.op = "execute_signal" /\ last.signal \notin {1, 0 - 1}) =>
        /\ ~Created
        /\ positions = SelectSeq(last.positions_before,
                                 LAMBDA id : ~pos[id].closed)
        /\ \A i \in 1..Len(last.positions_before) :
               pos[last.positions_before[i]].closed <=>
                   check_exit_conditions([pos[last.positions_before[i]]
                                            EXCEPT !.closed = FALSE],
                                         last.high_price, last.low_price)
        /\ Len(history) - last.nhist_before
               = Len(last.positions_before) - Len(positions)
        /\ \A k \in (last.nhist_before + 1)..Len(history) :
               history[k].action = "close"

\* a signal of 2 on a bar that reaches an exit level of the open position
C23_Witness ==
    /\ pc = "api"
    /\ last.op = "execute_signal"
    /\ last.signal = 2
    /\ Len(last.positions_before) = 1
    /\ positions = <<>>
    /\ Len(history) = last.nhist_before + 1
    /\ history[Len(history)].action = "close"

\* C24 (as claimed): the entry_price of a new position, the price of its
\* 'open' record and the price the deducted margin is computed from are one
\* and the same slippage-adjusted price; the exit_price of a closed position,
\* the price of its 'close' record and the price its proceeds are computed
\* from are the close price adjusted once.
C24_FilledAtAdjustedPrice ==
    /\ (pc = "api" /\ last.op = "open_position" /\ Created) =>
           LET new == pos[Len(pos)]
               adjusted == RMul(last.price,
                                IF new.type = "long"
                                THEN RAdd(One, cfg.slippage_pct)
                                ELSE RSub(One, cfg.slippage_pct))
           IN  /\ new.entry_price = adjusted
               /\ history[Len(history)].price = adjusted
               /\ RSub(last.cash_before, cash) =
                      RDiv(RMul(RMul(adjusted, new.amount),
                                RAdd(One, cfg.transaction_cost)), cfg.leverage)
    /\ (pc = "api" /\ last.op = "close_position") =>
           LET old == pos[last.target]
               adjusted == RMul(last.price,
                                IF old.type = "long"
                                THEN RSub(One, cfg.slippage_pct)
                                ELSE RAdd(One, cfg.slippage_pct))
           IN  /\ old.exit_price = adjusted
               /\ old.profit_loss =
                      profit_loss_of(old.type, old.entry_price, adjusted,
                                     old.amount)
               /\ history[Len(history)].price = adjusted
               /\ RSub(cash, last.cash_before) =
                      RMul(RMul(adjusted, old.amount),
                           RSub(One, cfg.transaction_cost))

\* the unrealized P&L, at price, of the positions ids[1..i]
RECURSIVE UnrealizedOf(_, _, _)
UnrealizedOf(ids, i, price) ==
    IF i = 0 THEN Zero
    ELSE LET p == pos[ids[i]]
         IN  RAdd(UnrealizedOf(ids, i - 1, price),
                  IF p.type = "long"
                  THEN RMul(RSub(price, p.entry_price), p.amount)
                  ELSE RMul(RSub(p.entry_price, price), p.amount))

\* the equity open_position found: its cash plus the unrealized P&L of the
\* positions open at that moment, at the price of the call
EquityAtOpen ==
    RAdd(last.open_cash,
         UnrealizedOf(last.open_positions, Len(last.open_positions), last.price))

\* C26 (as claimed): the quantity of every open is a multiple of the equity
\* at the moment of the open by a factor that the price, the stop distance
\* and the configuration fix (that of the risk-sized quantity or that of the
\* quantity reduced to the available funds), so that two opens at the same
\* price and stop distance are in proportion to their equities.
C26_SizedFromEquity ==
    (pc = "api" /\ Opened) =>
        pos[Len(pos)].amount \in
            {RDiv(RMul(EquityAtOpen, cfg.risk_per_trade),
                  RMul(last.stop_loss_pct, last.price)),
             RDiv(RMul(EquityAtOpen, cfg.leverage),
                  RMul(last.price, RAdd(One, cfg.transaction_cost)))}

\* C26 (amended): the quantity of every open is equity * risk_per_trade /
\* (stop_loss_pct * price) with the equity at the moment of the open, unless
\* the margin of that quantity exceeds the cash, and then it is cash *
\* leverage / (price * (1 + transaction_cost)); an open made by
\* execute_signal finds no position open, its equity is its cash, and its
\* quantity is in proportion to the equity in both cases.
C26_SizedFromEquityOrCash ==
    (pc = "api" /\ Opened) =>
        LET risk_size == RDiv(RMul(EquityAtOpen, cfg.risk_per_trade),
                              RMul(last.stop_loss_pct, last.price))
            adjusted == RMul(last.price,
                             IF last.position_type = "long"
                             THEN RAdd(One, cfg.slippage_pct)
                             ELSE RSub(One, cfg.slippage_pct))
            margin == RDiv(RMul(RMul(adjusted, risk_size),
                                RAdd(One, cfg.transaction_cost)), cfg.leverage)
        IN  /\ pos[Len(pos)].amount =
                   IF RGt(margin, last.open_cash)
                   THEN RDiv(RMul(last.open_cash, cfg.leverage),
                             RMul(last.price, RAdd(One, cfg.transaction_cost)))
                   ELSE risk_size
            /\ last.op = "execute_signal" =>
                   /\ last.open_positions = <<>>
                   /\ EquityAtOpen = last.open_cash
                   /\ C26_SizedFromEquity

\* a second position was opened while the first one had an unrealized P&L:
\* the equity was neither the initial capital nor the cash, and the quantity
\* is the risk-sized one
C26_Witness ==
    /\ pc = "api"
    /\ Opened
    /\ last.open_positions # <<>>
    /\ EquityAtOpen # cfg.initial_cash
    /\ EquityAtOpen # last.open_cash
    /\ pos[Len(pos)].amount = RDiv(RMul(EquityAtOpen, cfg.risk_per_trade),
                                    RMul(last.stop_loss_pct, last.price))

\* C27: after every step each position in positions has amount > 0 and
\* profit_loss = 0, a position is created with profit_loss = 0, and the
\* profit_loss of a position changes only in a step that closes it and takes
\* it out of positions.
C27_RealizedOnlyAtClose ==
    [][/\ \A i \in 1..Len(positions') :
              /\ RGt(pos'[positions'[i]].amount, Zero)
              /\ pos'[positions'[i]].profit_loss = Zero
       /\ \A id \in (Len(pos) + 1)..Len(pos') : pos'[id].profit_loss = Zero
       /\ \A id \in 1..Len(pos) :
              pos'[id].profit_loss # pos[id].profit_loss =>
                  /\ IsOpen(id)
                  /\ ~pos[id].closed
                  /\ pos'[id].closed
                  /\ \A i \in 1..Len(positions') : positions'[i] # id]_vars

\* one call closed a position with a profit or a loss and opened another:
\* the closed one is out of positions, the open one has no realized P&L
C27_Witness ==
    /\ pc = "api"
    /\ last.op = "execute_signal"
    /\ Created
    /\ Len(last.positions_before) = 1
    /\ pos[last.positions_before[1]].closed
    /\ pos[last.positions_before[1]].profit_loss # Zero
    /\ positions = <<Len(pos)>>
    /\ RGt(pos[Len(pos)].amount, Zero)
    /\ pos[Len(pos)].profit_loss = Zero

\* C28 (as claimed): with slippage_pct = 0, transaction_cost = 0 and
\* leverage = 1, once the one position ever opened, long or short, has been
\* closed, cash is the cash before the open plus the position's profit_loss.
C28_RoundTripCashIsPnl ==
    (/\ pc = "api"
     /\ cfg.slippage_pct = Zero /\ cfg.transaction_cost = Zero
     /\ cfg.leverage = One
     /\ Len(pos) = 1 /\ Len(history) = 2
     /\ pos[1].closed) =>
        cash = RAdd(cfg.initial_cash, pos[1].profit_loss)

\* C29: a position opened during an execute_signal call is open when the
\* call returns, whatever the high and the low of its bar are, and no
\* position is closed at the date it was opened.
C29_OpenedPositionSurvivesItsBar ==
    /\ (pc = "api" /\ last.op = "execute_signal" /\ Created) =>
           /\ Len(pos) = last.npos_before + 1
           /\ IsOpen(Len(pos))
           /\ ~pos[Len(pos)].closed
           /\ pos[Len(pos)].entry_date = now
    /\ pc = "api" =>
           \A id \in ClosedIds : pos[id].exit_date > pos[id].entry_date

\* the bar that opened the position already crosses one of its levels
C29_Witness ==
    /\ pc = "api"
    /\ last.op = "execute_signal"
    /\ Created
    /\ check_exit_conditions(pos[Len(pos)], last.high_price, last.low_price)
    /\ IsOpen(Len(pos))
    /\ ~pos[Len(pos)].closed

\* C8 (as claimed): the quantity of a position that open_position opens is
\* equity / price when stop_loss_pct * price > equity * risk_per_trade and
\* equity * risk_per_trade / (stop_loss_pct * price) otherwise, i.e. what
\* calculate_size returns, and it is positive.
C8_OpenSizedByCalculateSize ==
    (last.op = "open_position" /\ Created) =>
        /\ pos[Len(pos)].amount =
               IF RGt(RMul(last.stop_loss_pct, last.price),
                      RMul(last.open_equity, cfg.risk_per_trade))
               THEN RDiv(last.open_equity, last.price)
               ELSE RDiv(RMul(last.open_equity, cfg.risk_per_trade),
                         RMul(last.stop_loss_pct, last.price))
        /\ pos[Len(pos)].amount =
               calculate_size(last.price, last.open_equity, last.stop_loss_pct,
                              cfg.risk_per_trade)
        /\ RGt(pos[Len(pos)].amount, Zero)

(***************************************************************************)
(* Properties of execute_trades.                                           *)
(***************************************************************************)
\* C5: across any sequence of execute_signal calls on an executor that
\* starts flat, positions never holds a long and a short together and never
\* holds two positions of the same side.
C5_OnePositionAtMost ==
    /\ Len(positions_of_type(Exec, "long")) <= 1
    /\ Len(positions_of_type(Exec, "short")) <= 1
    /\ ~(positions_of_type(Exec, "long") # <<>>
         /\ positions_of_type(Exec, "short") # <<>>)

\* a reversal: the signal closed a position of one side and opened the other
C5_Witness ==
    /\ last.op = "execute_signal"
    /\ last.positions_before # <<>>
    /\ Created
    /\ pos[Len(pos)].type # pos[last.positions_before[1]].type
    /\ Len(positions) = 1

Kinds(records) ==
    [i \in 1..Len(records) |-> <<records[i].action, records[i].position_type>>]

Reversal == <<<<"open", "long">>, <<"close", "long">>, <<"open", "short">>>>

\* C6 (as claimed): execute_trades over three calm bars with signals
\* [1, -1, 0], on which the executor opened a long, closed it and opened a
\* short without ever running out of cash, returns exactly the ledger:
\* open long, close long, open short.
C6_LedgerOfReversal ==
    ( /\ pc = "done"
      /\ Len(signals) = 3
      /\ signals[1].Signal = 1
      /\ signals[2].Signal = 0 - 1
      /\ signals[3].Signal = 0
      /\ \A i \in 1..3 : signals[i].High = N(101) /\ signals[i].Low = N(99)
      /\ \A i \in 1..3 : RGt(equity_curve[i], Zero)
      /\ Kinds(history) = Reversal )
    => Kinds(transactions) = Reversal

\* records with every record identical to its predecessor removed
RECURSIVE Deduplicated(_)
Deduplicated(records) ==
    IF Len(records) <= 1 THEN records
    ELSE LET front == Deduplicated(SubSeq(records, 1, Len(records) - 1))
         IN  IF records[Len(records)] = records[Len(records) - 1] THEN front
             ELSE Append(front, records[Len(records)])

\* C21 (as claimed): when execute_trades returns, transactions holds every
\* record of executor.history, in order: it equals history with the records
\* identical to their predecessor removed.
C21_LedgerIsHistory ==
    pc = "done" => transactions = Deduplicated(history)

(***************************************************************************)
(* execute_trades on a frame whose index is not sorted.  `signals` is the  *)
(* frame in the order the caller built it; the columns of a row are read   *)
(* when the loop reaches the row, and kept in the frame from then on.      *)
(***************************************************************************)
\* the frame iterated as the caller gave it
sort_index_as_given(frame) == frame

\* DataFrame.sort_index(): the rows in ascending order of their index
RECURSIVE sort_index(_)
sort_index(frame) ==
    IF frame = <<>> THEN <<>>
    ELSE LET k == CHOOSE i \in 1..Len(frame) :
                      \A j \in 1..Len(frame) : frame[i].index <= frame[j].index
         IN  <<frame[k]>> \o sort_index(SubSeq(frame, 1, k - 1)
                                         \o SubSeq(frame, k + 1, Len(frame)))

\* the index column of the frames offered: ascending, descending, rotated
FrameIndexes ==
    {[i \in 1..MaxBars |-> i], [i \in 1..MaxBars |-> MaxBars + 1 - i],
     [i \in 1..MaxBars |-> (i % MaxBars) + 1]}

FrameConfigs == {Config(N(1000), Zero, N(1), Zero, Q(1, 100)),
                 Config(N(1000), Q(1, 4), N(2), Zero, Q(1, 10))}

\* a calm bar with wide exit levels (a position entered on it at 100 has its
\* levels at 80 and 140, or 120 and 60), a bar that rises inside them and a
\* bar that falls to them
FrameBars == {Bar(100, 101, 99, 20, 40), Bar(125, 125, 104, 5, 10),
              Bar(80, 96, 80, 4, 8)}

InitFrame ==
    /\ cfg \in FrameConfigs
    /\ cash = cfg.initial_cash
    /\ positions = <<>>
    /\ pos = <<>>
    /\ history = <<>>
    /\ last = Call("init", 0, "none", Zero, Zero, Zero, Zero, Zero, 0,
                   TradingExecutor(cfg.initial_cash),
                   TradingExecutor(cfg.initial_cash))
    /\ now = 0
    /\ pc = "frame"
    /\ \E ix \in FrameIndexes : signals = [i \in 1..MaxBars |-> [index |-> ix[i]]]
    /\ transactions = <<>>
    /\ equity_curve = <<>>
    /\ dates = <<>>

FrameBar(signal, b) ==
    /\ pc = "frame"
    /\ now < Len(signals)
    /\ now' = now + 1
    /\ \E row \in {Row(sort_index(signals)[now + 1].index, signal, b)} :
           /\ signals' = [i \in 1..Len(signals) |->
                             IF signals[i].index = row.index THEN row
                             ELSE signals[i]]
           /\ \E s \in {execute_signal(Exec, cfg, row.Signal, row.Close,
                                       row.index, row.High, row.Low,
                                       row.ATR_Stop_Loss, row.ATR_Take_Profit)} :
                  /\ Become(s)
                  /\ transactions' = record_transaction(transactions, s.history)
                  /\ equity_curve' =
                         Append(equity_curve,
                                get_total_portfolio_value(s, row.Close))
           /\ dates' = Append(dates, row.index)
           /\ \E s2 \in {state_before_entry(Exec, cfg, row.Signal, row.Close,
                                            row.index, row.High, row.Low)} :
                  last' = Call("execute_signal", row.Signal,
                               signal_side(row.Signal), row.Close, row.High,
                               row.Low, RDiv(row.ATR_Stop_Loss, row.Close),
                               RDiv(row.ATR_Take_Profit, row.Close), 0, Exec, s2)
    /\ UNCHANGED <<cfg, pc>>

FrameReturn ==
    /\ pc = "frame"
    /\ now = Len(signals)
    /\ pc' = "returned"
    /\ UNCHANGED <<cfg, cash, positions, pos, history, last, now, signals,
                   transactions, equity_curve, dates>>

NextFrame ==
    \/ \E sg \in Signals, b \in FrameBars : FrameBar(sg, b)
    \/ FrameReturn

SpecFrame == InitFrame /\ [][NextFrame]_vars

\* sum over the open positions `positions[1..i]` of the unrealized P&L at price
RECURSIVE UnrealizedAt(_, _)
UnrealizedAt(i, price) ==
    IF i = 0 THEN Zero
    ELSE RAdd(UnrealizedAt(i - 1, price),
              IF pos[positions[i]].type = "long"
              THEN RMul(RSub(price, pos[positions[i]].entry_price),
                        pos[positions[i]].amount)
              ELSE RMul(RSub(pos[positions[i]].entry_price, price),
                        pos[positions[i]].amount))

\* C22: execute_trades takes the bars in ascending order of their index and
\* appends one equity value and one date per bar (as many as bars when it
\* returns); the value of a bar is cash plus the unrealized P&L of the open
\* positions at the bar's close, taken after the bar's exits and signal.
C22_OneEquityValuePerBar ==
    pc \in {"frame", "returned"} =>
        /\ Len(equity_curve) = now
        /\ Len(dates) = now
        /\ pc = "returned" => now = Len(signals)
        /\ \A i \in 1..Len(dates) :
               /\ \A j \in 1..Len(dates) : i < j => dates[i] < dates[j]
               /\ Cardinality({k \in 1..Len(signals) :
                                  signals[k].index < dates[i]}) = i - 1
        /\ now > 0 =>
               equity_curve[now] =
                   RAdd(cash, UnrealizedAt(Len(positions), last.price))

\* a frame given in descending order was run to its end with a position
\* still open, worth something else than its entry value, at the last bar
C22_Witness ==
    /\ pc = "returned"
    /\ signals[1].index = Len(signals)
    /\ positions # <<>>
    /\ equity_curve[now] # cash
    /\ dates[1] = 1

(***************************************************************************)
(* software/position.py : class Position.  kwargs is the record of the     *)
(* arguments the caller passes; a call returns the exception it raises     *)
(* ("none" when it returns normally) next to its result.                   *)
(***************************************************************************)
software_Position(kwargs) ==
    IF {"position_type", "amount", "entry_price", "entry_date"} \subseteq DOMAIN kwargs
    THEN IF kwargs.position_type \notin {"long", "short"}
         THEN [raised |-> "ValueError", obj |-> kwargs]
         ELSE [raised |-> "none",
               obj |-> [type |-> kwargs.position_type, amount |-> kwargs.amount,
                        entry_price |-> kwargs.entry_price,
                        entry_date |-> kwargs.entry_date, closed |-> FALSE,
                        exit_price |-> None, exit_date |-> 0, pnl |-> Zero,
                        stop_loss_price |-> Zero]]
    ELSE [raised |-> "TypeError", obj |-> kwargs]

\* close without the guard on the closed flag
software_Position_close_again(p, exit_price, exit_date) ==
    [raised |-> "none",
     obj |-> [p EXCEPT !.exit_price = exit_price, !.exit_date = exit_date,
                       !.closed = TRUE,
                       !.pnl = IF p.type = "long"
                               THEN RMul(RSub(exit_price, p.entry_price), p.amount)
                               ELSE RMul(RSub(p.entry_price, exit_price),
                                         p.amount)]]

software_Position_close(p, exit_price, exit_date) ==
    IF p.closed THEN [raised |-> "ValueError", obj |-> p]
    ELSE [raised |-> "none",
          obj |-> [p EXCEPT !.exit_price = exit_price, !.exit_date = exit_date,
                            !.closed = TRUE,
                            !.pnl = IF p.type = "long"
                                    THEN RMul(RSub(exit_price, p.entry_price),
                                              p.amount)
                                    ELSE IF p.type = "short"
                                    THEN RMul(RSub(p.entry_price, exit_price),
                                              p.amount)
                                    ELSE p.pnl]]

(***************************************************************************)
(* Position objects on their own: pos[1] is a sofware Position and pos[2]  *)
(* a software Position built from the same arguments; each step closes one *)
(* of them at some exit price.                                             *)
(***************************************************************************)
Amounts == {Q(1, 2), N(1), N(5), N(10)}
EntryPrices == {N(100), N(150)}
ExitPrices == {N(90), N(100), N(110), N(140), N(160)}

InitPosition ==
    /\ cfg = Config(N(1000), Zero, N(1), Zero, Q(1, 100))
    /\ cash = cfg.initial_cash
    /\ positions = <<>>
    /\ \E t \in Sides, a \in Amounts, e \in EntryPrices :
           pos = <<Position(t, a, e, 0, None, None),
                   software_Position([position_type |-> t, amount |-> a,
                                      entry_price |-> e, entry_date |-> 0]).obj>>
    /\ history = <<>>
    /\ last = [op |-> "init", target |-> 0, exit_price |-> Zero, raised |-> "none"]
    /\ now = 0
    /\ pc = "position"
    /\ signals = <<>>
    /\ transactions = <<>>
    /\ equity_curve = <<>>
    /\ dates = <<>>

PositionCloseCall(exit_price) ==
    /\ pc = "position"
    /\ now < MaxCalls
    /\ now' = now + 1
    /\ pos' = [pos EXCEPT ![1] = Position_close(pos[1], exit_price, now + 1)]
    /\ last' = [op |-> "Position.close", target |-> 1, exit_price |-> exit_price,
                raised |-> "none"]
    /\ UNCHANGED <<cfg, cash, positions, history, pc, signals, transactions,
                   equity_curve, dates>>

SoftwarePositionCloseCall(exit_price) ==
    /\ pc = "position"
    /\ now < MaxCalls
    /\ now' = now + 1
    /\ \E r \in {software_Position_close(pos[2], exit_price, now + 1)} :
           /\ pos' = [pos EXCEPT ![2] = r.obj]
           /\ last' = [op |-> "Position.close", target |-> 2,
                       exit_price |-> exit_price, raised |-> r.raised]
    /\ UNCHANGED <<cfg, cash, positions, history, pc, signals, transactions,
                   equity_curve, dates>>

NextPosition ==
    \/ \E x \in ExitPrices : PositionCloseCall(x)
    \/ \E x \in ExitPrices : SoftwarePositionCloseCall(x)

SpecPosition == InitPosition /\ [][NextPosition]_vars

\* C3: Position.close(exit_price) sets the pnl to (exit_price - entry_price) *
\* amount for a long and to (entry_price - exit_price) * amount for a short, in
\* both Position classes; so a long closed above its entry and a short closed
\* below its entry have a pnl > 0.
C3_PnlOfClose ==
    /\ pos[1].closed =>
         /\ pos[1].type = "long" =>
                pos[1].profit_loss =
                    RMul(RSub(pos[1].exit_price, pos[1].entry_price), pos[1].amount)
         /\ pos[1].type = "short" =>
                pos[1].profit_loss =
                    RMul(RSub(pos[1].entry_price, pos[1].exit_price), pos[1].amount)
         /\ (pos[1].type = "long" /\ RGt(pos[1].exit_price, pos[1].entry_price))
                => RGt(pos[1].profit_loss, Zero)
         /\ (pos[1].type = "short" /\ RLt(pos[1].exit_price, pos[1].entry_price))
                => RGt(pos[1].profit_loss, Zero)
    /\ pos[2].closed =>
         /\ pos[2].type = "long" =>
                pos[2].pnl =
                    RMul(RSub(pos[2].exit_price, pos[2].entry_price), pos[2].amount)
         /\ pos[2].type = "short" =>
                pos[2].pnl =
                    RMul(RSub(pos[2].entry_price, pos[2].exit_price), pos[2].amount)
         /\ (pos[2].type = "long" /\ RGt(pos[2].exit_price, pos[2].entry_price))
                => RGt(pos[2].pnl, Zero)
         /\ (pos[2].type = "short" /\ RLt(pos[2].exit_price, pos[2].entry_price))
                => RGt(pos[2].pnl, Zero)

\* a short of a fractional amount closed below its entry, in both classes
C3_Witness ==
    /\ pos[1].closed /\ pos[2].closed
    /\ pos[1].type = "short" /\ pos[2].type = "short"
    /\ pos[1].amount = Q(1, 2)
    /\ RLt(pos[1].exit_price, pos[1].entry_price)
    /\ RLt(pos[2].exit_price, pos[2].entry_price)
    /\ RGt(pos[1].profit_loss, Zero)
    /\ RGt(pos[2].pnl, Zero)

\* C12: Position.close (software/position.py) on a position that is already
\* closed raises ValueError and leaves exit_price, exit_date, pnl and closed
\* as the first close set them; closed never returns to false.
C12_CloseOnlyOnce ==
    [][/\ pos[2].closed => pos'[2].closed
       /\ (pos[2].closed /\ last'.target = 2) =>
              /\ last'.raised = "ValueError"
              /\ pos'[2].exit_price = pos[2].exit_price
              /\ pos'[2].exit_date = pos[2].exit_date
              /\ pos'[2].pnl = pos[2].pnl
              /\ pos'[2].closed
       /\ (~pos[2].closed /\ last'.target = 2) =>
              /\ last'.raised = "none"
              /\ pos'[2].closed]_vars

\* a second close, at another price than the first, was refused
C12_Witness ==
    /\ last.op = "Position.close"
    /\ last.target = 2
    /\ last.raised = "ValueError"
    /\ pos[2].closed
    /\ pos[2].exit_date < now
    /\ pos[2].exit_price # last.exit_price

(***************************************************************************)
(* software/trade_utils.py                                                 *)
(***************************************************************************)
\* round(x, 2): the nearest multiple of 1/100, a tie going to the even one
round2(x) ==
    LET q == x[1] \div x[2]
        r == x[1] % x[2]
        c == (r * 100) \div x[2]
        rem == (r * 100) % x[2]
        up == 2 * rem > x[2] \/ (2 * rem = x[2] /\ c % 2 = 1)
    IN  RAdd(N(q), Q(IF up THEN c + 1 ELSE c, 100))

calculate_size_in_usd(account_size, risk_per_trade, adjusted_price, stop_loss_price) ==
    LET account_risk == RMul(account_size, risk_per_trade)
        sl_size == RAbs(RSub(adjusted_price, stop_loss_price))
    IN  IF adjusted_price = Zero \/ sl_size = Zero
        THEN [raised |-> "ZeroDivisionError", value |-> Zero]
        ELSE [raised |-> "none",
              value |-> round2(RDiv(account_risk, RDiv(sl_size, adjusted_price)))]

apply_slippage(price, position_type, slippage_pct) ==
    IF position_type = "long"
    THEN [raised |-> "none", value |-> RMul(price, RAdd(One, slippage_pct))]
    ELSE IF position_type = "short"
    THEN [raised |-> "none", value |-> RMul(price, RSub(One, slippage_pct))]
    ELSE [raised |-> "ValueError", value |-> price]

(***************************************************************************)
(* software/strategy_sell.py                                               *)
(***************************************************************************)
check_stop_loss(position, price) ==
    IF position.type = "long" /\ RLe(price, position.stop_loss_price) THEN TRUE
    ELSE IF position.type = "short" /\ RGe(price, position.stop_loss_price)
    THEN TRUE
    ELSE FALSE

\* the stop replaced whatever the old one was
update_trailing_stop_unconditional(position, price, stop_loss_price) ==
    [position EXCEPT !.stop_loss_price = stop_loss_price]

update_trailing_stop(position, price, stop_loss_price) ==
    IF position.type = "long"
    THEN IF RGt(stop_loss_price, position.stop_loss_price)
         THEN [position EXCEPT !.stop_loss_price = stop_loss_price]
         ELSE position
    ELSE IF position.type = "short"
    THEN IF RLt(stop_loss_price, position.stop_loss_price)
         THEN [position EXCEPT !.stop_loss_price = stop_loss_price]
         ELSE position
    ELSE position

(***************************************************************************)
(* software/executor.py : class TradingExecutor.  A call returns the       *)
(* executor as it leaves it and the exception that reaches the caller.     *)
(***************************************************************************)
software_open_position(s, c, position_type, price, stop_loss_price, date) ==
    LET adjusted == apply_slippage(price, position_type, c.slippage_pct) IN
    IF adjusted.raised # "none" THEN [raised |-> "RuntimeError", s |-> s]
    ELSE
    LET size_usdt == calculate_size_in_usd(s.cash, c.risk_per_trade,
                                           adjusted.value, stop_loss_price)
    IN
    IF size_usdt.raised # "none" THEN [raised |-> "RuntimeError", s |-> s]
    ELSE IF RGt(size_usdt.value, s.cash) THEN [raised |-> "none", s |-> s]
    ELSE
    LET debited == [s EXCEPT !.cash = RSub(s.cash, size_usdt.value)]
        \* Position(position_type=..., entry_price=..., entry_date=...)
        position == software_Position([position_type |-> position_type,
                                       entry_price |-> adjusted.value,
                                       entry_date |-> date])
    IN  IF position.raised # "none"
        THEN [raised |-> "RuntimeError", s |-> debited]
        ELSE [raised |-> "none",
              s |-> [debited EXCEPT
                       !.pos = Append(s.pos, [position.obj EXCEPT
                                                !.stop_loss_price = stop_loss_price]),
                       !.positions = Append(s.positions, Len(s.pos) + 1),
                       !.history = Append(s.history,
                                          [action |-> "open",
                                           position_type |-> position_type,
                                           price |-> adjusted.value,
                                           date |-> date])]]

has_open_position(s, position_type) ==
    \E i \in 1..Len(s.positions) :
        /\ s.pos[s.positions[i]].type = position_type
        /\ ~s.pos[s.positions[i]].closed

software_execute_signal(s, c, signal, price, stop_loss_price, date) ==
    IF signal = 1 /\ ~has_open_position(s, "long") /\ ~has_open_position(s, "short")
    THEN software_open_position(s, c, "long", price, stop_loss_price, date)
    ELSE IF signal = 0 - 1 /\ ~has_open_position(s, "short")
            /\ ~has_open_position(s, "long")
    THEN software_open_position(s, c, "short", price, stop_loss_price, date)
    ELSE [raised |-> "none", s |-> s]

software_close_position(s, c, id, price, date) ==
    LET adjusted == apply_slippage(price, s.pos[id].type, c.slippage_pct) IN
    IF adjusted.raised # "none" THEN [raised |-> "RuntimeError", s |-> s]
    ELSE
    LET closed == software_Position_close(s.pos[id], adjusted.value, date) IN
    IF closed.raised # "none" THEN [raised |-> "RuntimeError", s |-> s]
    ELSE [raised |-> "none",
          s |-> [s EXCEPT
                   !.pos = [s.pos EXCEPT ![id] = closed.obj],
                   !.cash = RAdd(s.cash, adjusted.value),
                   !.history = Append(s.history,
                                      [action |-> "close",
                                       position_type |-> closed.obj.type,
                                       price |-> adjusted.value,
                                       date |-> date,
                                       pnl |-> closed.obj.pnl]),
                   !.positions = ListRemove(s.positions, id)]]

\* `for position in self.positions`: the loop walks the list by index while
\* close_position removes from it
RECURSIVE update_positions_from(_, _, _, _, _, _)
update_positions_from(s, c, i, price, date, stop_loss_price) ==
    IF i > Len(s.positions) THEN [raised |-> "none", s |-> s]
    ELSE
    LET id == s.positions[i] IN
    IF s.pos[id].closed
    THEN update_positions_from(s, c, i + 1, price, date, stop_loss_price)
    ELSE
    LET s1 == [s EXCEPT !.pos = [s.pos EXCEPT ![id] =
                   update_trailing_stop(s.pos[id], price, stop_loss_price)]]
    IN  IF check_stop_loss(s1.pos[id], price)
        THEN LET r == software_close_position(s1, c, id, price, date)
             IN  IF r.raised # "none" THEN r
                 ELSE update_positions_from(r.s, c, i + 1, price, date,
                                            stop_loss_price)
        ELSE update_positions_from(s1, c, i + 1, price, date, stop_loss_price)

update_positions(s, c, price, date, stop_loss_price) ==
    update_positions_from(s, c, 1, price, date, stop_loss_price)

SoftwareConfigs == {Config(N(3000), Q(1, 1000), N(1), Zero, Q(1, 50)),
                    Config(N(1000), Q(1, 100), N(2), Q(1, 100), Q(1, 50))}

\* <<price, stop_loss_price>>
SoftwareOrders == {<<Q(17223, 2), Q(18313, 2)>>, <<N(100), N(95)>>,
                   <<N(100), N(105)>>, <<N(100), N(100)>>, <<N(8), N(7)>>,
                   <<N(100), N(5)>>}

\* The sizing of an order multiplies the cash at risk by the adjusted price
\* and divides by the stop distance; the orders offered are those for which
\* these products stay within the integers the model computes with.
MaxInt == 2 ^ 30

OrderFits(position_type, order) ==
    LET account_risk == RMul(cash, cfg.risk_per_trade)
        adjusted == apply_slippage(order[1], position_type, cfg.slippage_pct).value
        sl_size == RAbs(RSub(adjusted, order[2]))
    IN  /\ AbsInt(account_risk[1]) <= MaxInt \div adjusted[1]
        /\ account_risk[2] * 100 <= MaxInt \div (IF sl_size[1] = 0 THEN 1
                                                  ELSE sl_size[1])

SoftwareCall(op, signal, position_type, order, raised) ==
    [op |-> op, signal |-> signal, position_type |-> position_type,
     price |-> order[1], stop_loss_price |-> order[2], raised |-> raised,
     cash_before |-> cash, npos_before |-> Len(pos),
     nhist_before |-> Len(history), positions_before |-> positions,
     prev_op |-> last.op, prev_signal |-> last.signal,
     prev_cash_before |-> last.cash_before]

InitSoftware ==
    /\ cfg \in SoftwareConfigs
    /\ cash = cfg.initial_cash
    /\ positions = <<>>
    /\ pos = <<>>
    /\ history = <<>>
    /\ last = [op |-> "init", signal |-> 0, position_type |-> "none",
               price |-> Zero, stop_loss_price |-> Zero, raised |-> "none",
               cash_before |-> cfg.initial_cash, npos_before |-> 0,
               nhist_before |-> 0, positions_before |-> <<>>,
               prev_op |-> "init", prev_signal |-> 0,
               prev_cash_before |-> cfg.initial_cash]
    /\ now = 0
    /\ pc = "software"
    /\ signals = <<>>
    /\ transactions = <<>>
    /\ equity_curve = <<>>
    /\ dates = <<>>

SoftwareOpenPositionCall(position_type, order) ==
    /\ pc = "software"
    /\ now < MaxCalls
    /\ now' = now + 1
    /\ \E r \in {software_open_position(Exec, cfg, position_type, order[1],
                                        order[2], now + 1)} :
           /\ Become(r.s)
           /\ last' = SoftwareCall("open_position", 0, position_type, order,
                                   r.raised)
    /\ UNCHANGED <<cfg, pc, signals, transactions, equity_curve, dates>>

SoftwareExecuteSignalCall(signal, order) ==
    /\ pc = "software"
    /\ now < MaxCalls
    /\ now' = now + 1
    /\ \E r \in {software_execute_signal(Exec, cfg, signal, order[1], order[2],
                                         now + 1)} :
           /\ Become(r.s)
           /\ last' = SoftwareCall("execute_signal", signal, signal_side(signal),
                                   order, r.raised)
    /\ UNCHANGED <<cfg, pc, signals, transactions, equity_curve, dates>>

\* close_position called with a Position the caller built; the position is
\* not in self.positions
SoftwareClosePositionCall(position_type, entry_price, price) ==
    /\ pc = "software"
    /\ now < MaxCalls
    /\ now' = now + 1
    /\ \E position \in {software_Position([position_type |-> position_type,
                                            amount |-> N(1),
                                            entry_price |-> entry_price,
                                            entry_date |-> now]).obj} :
       \E r \in {software_close_position([Exec EXCEPT !.pos = Append(pos, position)],
                                         cfg, Len(pos) + 1, price, now + 1)} :
           /\ Become(r.s)
           /\ last' = SoftwareCall("close_position", 0, position_type,
                                   <<price, Zero>>, r.raised)
    /\ UNCHANGED <<cfg, pc, signals, transactions, equity_curve, dates>>

SoftwareUpdatePositionsCall(order) ==
    /\ pc \in {"software", "book"}
    /\ now < MaxCalls
    /\ now' = now + 1
    /\ \E r \in {update_positions(Exec, cfg, order[1], now + 1, order[2])} :
           /\ Become(r.s)
           /\ last' = SoftwareCall("update_positions", 0, "none", order,
                                   r.raised)
    /\ UNCHANGED <<cfg, pc, signals, transactions, equity_curve, dates>>

NextSoftware ==
    \/ \E t \in Sides, o \in SoftwareOrders :
           OrderFits(t, o) /\ SoftwareOpenPositionCall(t, o)
    \/ \E sg \in Signals, o \in SoftwareOrders :
           OrderFits(signal_side(sg), o) /\ SoftwareExecuteSignalCall(sg, o)
    \/ \E o \in SoftwareOrders : SoftwareUpdatePositionsCall(o)
    \/ \E t \in Sides, e \in {N(100)}, x \in {N(90), N(100), N(110)} :
           SoftwareClosePositionCall(t, e, x)

SpecSoftware == InitSoftware /\ [][NextSoftware]_vars

\* C9 (as claimed): with initial cash 3000, risk_per_trade 0.02, slippage 0
\* and leverage 1, open_position('short', 8611.5, 9156.5) as first call
\* debits a size of 948.06 and leaves cash = 2051.94 with exactly one open
\* short position.
C9_ShortOpenedFor948 ==
    ( /\ cfg.initial_cash = N(3000)
      /\ cfg.risk_per_trade = Q(2, 100)
      /\ cfg.slippage_pct = Zero
      /\ cfg.leverage = N(1)
      /\ now = 1
      /\ last.op = "open_position"
      /\ last.position_type = "short"
      /\ last.price = Q(86115, 10)
      /\ last.stop_loss_price = Q(91565, 10) )
    => /\ RSub(last.cash_before, cash) = Q(94806, 100)
       /\ cash = Q(205194, 100)
       /\ Len(positions) = 1
       /\ pos[positions[1]].type = "short"
       /\ ~pos[positions[1]].closed

C18_RejectedOpenChangesNothing ==
    ( /\ pc = "software"
      /\ last.op = "open_position"
      /\ Len(pos) = last.npos_before )
    => /\ cash = last.cash_before
       /\ positions = last.positions_before
       /\ Len(history) = last.nhist_before

\* C25 (as claimed): no fill is better than the nominal price: the price of
\* an 'open' record is >= the price passed for a long and <= it for a short,
\* the price of a 'close' record is <= the price passed for a long (a sale)
\* and >= it for a short (a buy-back).
C25_SlippageIsAdverse ==
    (pc = "software" /\ Len(history) > last.nhist_before) =>
        LET record == history[Len(history)] IN
        /\ (record.action = "open" /\ record.position_type = "long") =>
               RGe(record.price, last.price)
        /\ (record.action = "open" /\ record.position_type = "short") =>
               RLe(record.price, last.price)
        /\ (record.action = "close" /\ record.position_type = "long") =>
               RLe(record.price, last.price)
        /\ (record.action = "close" /\ record.position_type = "short") =>
               RGe(record.price, last.price)

(***************************************************************************)
(* software/executor.py : update_positions over a book of several          *)
(* positions.  open_position never appends to self.positions (the Position *)
(* constructor call fails), so the book is filled the way the public       *)
(* attribute allows: the caller appends Position objects it built.         *)
(***************************************************************************)
MaxBook == 3

\* <<price, stop_loss_price>>
BookOrders == {<<N(90), N(95)>>, <<N(100), N(95)>>, <<N(110), N(105)>>,
               <<N(100), N(5)>>}

InitBook ==
    /\ cfg \in SoftwareConfigs
    /\ cash = cfg.initial_cash
    /\ positions = <<>>
    /\ pos = <<>>
    /\ history = <<>>
    /\ last = [op |-> "init", signal |-> 0, position_type |-> "none",
               price |-> Zero, stop_loss_price |-> Zero, raised |-> "none",
               cash_before |-> cfg.initial_cash, npos_before |-> 0,
               nhist_before |-> 0, positions_before |-> <<>>,
               prev_op |-> "init", prev_signal |-> 0,
               prev_cash_before |-> cfg.initial_cash]
    /\ now = 0
    /\ pc = "book"
    /\ signals = <<>>
    /\ transactions = <<>>
    /\ equity_curve = <<>>
    /\ dates = <<>>

\* executor.positions.append(Position(position_type, 1, entry_price, date))
BookAppend(position_type, entry_price) ==
    /\ pc = "book"
    /\ Len(pos) < MaxBook
    /\ \E position \in {software_Position([position_type |-> position_type,
                                            amount |-> N(1),
                                            entry_price |-> entry_price,
                                            entry_date |-> now]).obj} :
           /\ pos' = Append(pos, position)
           /\ positions' = Append(positions, Len(pos) + 1)
    /\ last' = SoftwareCall("append", 0, position_type, <<entry_price, Zero>>,
                            "none")
    /\ UNCHANGED <<cfg, cash, history, now, pc, signals, transactions,
                   equity_curve, dates>>

NextBook ==
    \/ \E t \in Sides : BookAppend(t, N(100))
    \/ \E o \in BookOrders : SoftwareUpdatePositionsCall(o)

SpecBook == InitBook /\ [][NextBook]_vars

\* C30 (as claimed): an update_positions(price, date, stop) call leaves
\* every position that was open when it started with its trailing stop
\* updated (raised to stop for a long, lowered to it for a short, never
\* loosened), and closed and out of positions if price hits that stop.
C30_EveryOpenPositionEvaluated ==
    [][(pc = "book" /\ last'.op = "update_positions" /\ now' = now + 1) =>
        \A i \in 1..Len(positions) :
            LET old == pos[positions[i]]
                new == pos'[positions[i]]
                stop == IF old.type = "long"
                        THEN IF RGt(last'.stop_loss_price, old.stop_loss_price)
                             THEN last'.stop_loss_price
                             ELSE old.stop_loss_price
                        ELSE IF RLt(last'.stop_loss_price, old.stop_loss_price)
                             THEN last'.stop_loss_price
                             ELSE old.stop_loss_price
                hit == IF old.type = "long" THEN RLe(last'.price, stop)
                       ELSE RGe(last'.price, stop)
            IN  ~old.closed =>
                    /\ new.stop_loss_price = stop
                    /\ hit => /\ new.closed
                              /\ \A j \in 1..Len(positions') :
                                     positions'[j] # positions[i]]_vars

(***************************************************************************)
(* The helper functions called on their own: each step calls one of them   *)
(* with arguments drawn from the sets below and keeps the call and what it *)
(* returned (or raised) in `last`.                                         *)
(***************************************************************************)
\* sofware/utils.py (software/utils.py has the same body)
utils_apply_slippage(price, position_type, slippage_pct) ==
    [raised |-> "none",
     value |-> IF position_type = "long"
               THEN RMul(price, RSub(One, slippage_pct))
               ELSE RMul(price, RAdd(One, slippage_pct))]

PositionTypes == {"long", "short", "invalid", "test"}
UtilPrices == {N(100), N(8), Q(17223, 2)}
UtilSlippages == {Zero, Q(1, 100), Q(1, 20)}

half_epsilon == RDiv(epsilon, N(2))
twice_epsilon == RMul(epsilon, N(2))

\* <<stop_loss, take_profit>> of the positions checked
ExitLevels == {<<N(95), N(110)>>, <<None, N(110)>>, <<N(95), None>>,
               <<N(105), N(90)>>, <<None, N(90)>>, <<N(105), None>>}

\* prices at, beside and within epsilon of the levels above
ExitHighs == {N(101), N(105), N(110), N(111), RSub(N(110), half_epsilon),
              RSub(N(110), twice_epsilon), RSub(N(105), half_epsilon),
              RSub(N(105), twice_epsilon)}
ExitLows == {N(99), N(95), N(90), N(89), RAdd(N(95), half_epsilon),
             RAdd(N(95), twice_epsilon), RAdd(N(90), half_epsilon),
             RAdd(N(90), twice_epsilon)}
\* <<high, low>>: one of the two prices away from every level, or both beyond
ExitBars == {<<h, N(99)>> : h \in ExitHighs} \cup {<<N(101), l>> : l \in ExitLows}
                \cup {<<N(111), N(89)>>}

UtilCall(op, position_type, price, slippage_pct, p, high_price, low_price, raised, value, hit) ==
    [op |-> op, position_type |-> position_type, price |-> price,
     slippage_pct |-> slippage_pct, p |-> p, high_price |-> high_price,
     low_price |-> low_price, raised |-> raised, value |-> value, hit |-> hit]

NoPosition == Position("none", Zero, Zero, 0, None, None)

InitUtils ==
    /\ cfg = Config(N(1000), Zero, N(1), Zero, Q(1, 100))
    /\ cash = cfg.initial_cash
    /\ positions = <<>>
    /\ pos = <<>>
    /\ history = <<>>
    /\ last = UtilCall("init", "none", Zero, Zero, NoPosition, Zero, Zero,
                       "none", Zero, FALSE)
    /\ now = 0
    /\ pc = "utils"
    /\ signals = <<>>
    /\ transactions = <<>>
    /\ equity_curve = <<>>
    /\ dates = <<>>

ApplySlippageCall(price, position_type, slippage_pct) ==
    /\ pc = "utils"
    /\ now < MaxCalls
    /\ now' = now + 1
    /\ \E r \in {apply_slippage(price, position_type, slippage_pct)} :
           last' = UtilCall("trade_utils.apply_slippage", position_type, price,
                            slippage_pct, NoPosition, Zero, Zero, r.raised,
                            r.value, FALSE)
    /\ UNCHANGED <<cfg, cash, positions, pos, history, pc, signals,
                   transactions, equity_curve, dates>>

UtilsApplySlippageCall(price, position_type, slippage_pct) ==
    /\ pc = "utils"
    /\ now < MaxCalls
    /\ now' = now + 1
    /\ \E r \in {utils_apply_slippage(price, position_type, slippage_pct)} :
           last' = UtilCall("utils.apply_slippage", position_type, price,
                            slippage_pct, NoPosition, Zero, Zero, r.raised,
                            r.value, FALSE)
    /\ UNCHANGED <<cfg, cash, positions, pos, history, pc, signals,
                   transactions, equity_curve, dates>>

NewPositionCall(position_type, amount, entry_price) ==
    /\ pc = "utils"
    /\ now < MaxCalls
    /\ now' = now + 1
    /\ \E r \in {software_Position([position_type |-> position_type,
                                     amount |-> amount,
                                     entry_price |-> entry_price,
                                     entry_date |-> now + 1])} :
           last' = UtilCall("Position", position_type, entry_price, Zero,
                            NoPosition, Zero, Zero, r.raised, amount, FALSE)
    /\ UNCHANGED <<cfg, cash, positions, pos, history, pc, signals,
                   transactions, equity_curve, dates>>

CheckExitConditionsCall(position_type, levels, closed, high_price, low_price) ==
    /\ pc = "utils"
    /\ now < MaxCalls
    /\ now' = now + 1
    /\ \E p \in {[Position(position_type, N(1), N(100), 0, levels[1], levels[2])
                     EXCEPT !.closed = closed]} :
           last' = UtilCall("check_exit_conditions", position_type, Zero, Zero,
                            p, high_price, low_price, "none", Zero,
                            check_exit_conditions(p, high_price, low_price))
    /\ UNCHANGED <<cfg, cash, positions, pos, history, pc, signals,
                   transactions, equity_curve, dates>>

CheckStopLossCall(position_type, stop_loss_price, price) ==
    /\ pc = "utils"
    /\ now < MaxCalls
    /\ now' = now + 1
    /\ \E p \in {[software_Position([position_type |-> position_type,
                                      amount |-> N(1), entry_price |-> N(100),
                                      entry_date |-> 0]).obj
                     EXCEPT !.stop_loss_price = stop_loss_price]} :
           last' = UtilCall("check_stop_loss", position_type, price, Zero, p,
                            Zero, Zero, "none", Zero, check_stop_loss(p, price))
    /\ UNCHANGED <<cfg, cash, positions, pos, history, pc, signals,
                   transactions, equity_curve, dates>>

NextUtils ==
    \/ \E x \in UtilPrices, t \in PositionTypes, sl \in UtilSlippages :
           ApplySlippageCall(x, t, sl)
    \/ \E x \in UtilPrices, t \in PositionTypes, sl \in UtilSlippages :
           UtilsApplySlippageCall(x, t, sl)
    \/ \E t \in PositionTypes, a \in Amounts, e \in EntryPrices :
           NewPositionCall(t, a, e)
    \/ \E t \in Sides, lv \in ExitLevels, c \in BOOLEAN, b \in ExitBars :
           CheckExitConditionsCall(t, lv, c, b[1], b[2])
    \/ \E t \in Sides, st \in {N(90), N(110)}, x \in {N(80), N(90), N(100),
                                                        N(110), N(120)} :
           CheckStopLossCall(t, st, x)

SpecUtils == InitUtils /\ [][NextUtils]_vars

\* C11 (as claimed): apply_slippage(price, side, s) returns price * (1 + s)
\* for 'long' and price * (1 - s) for 'short' and fails for every other side,
\* whichever of the modules it is taken from; Position(...) raises a
\* ValueError for a type other than 'long' or 'short'.
C11_SlippageBySide ==
    /\ last.op \in {"trade_utils.apply_slippage", "utils.apply_slippage"} =>
          /\ last.position_type = "long" =>
                 /\ last.raised = "none"
                 /\ last.value = RMul(last.price, RAdd(One, last.slippage_pct))
          /\ last.position_type = "short" =>
                 /\ last.raised = "none"
                 /\ last.value = RMul(last.price, RSub(One, last.slippage_pct))
          /\ last.position_type \notin Sides => last.raised # "none"
    /\ last.op = "Position" =>
          (last.raised = "ValueError" <=> last.position_type \notin Sides)

StopPrices == {N(80), N(90), N(100), N(110), N(120)}
\* third argument of update_trailing_stop: read as a volatility unit (5, 10)
\* or as a stop level (85 .. 115)
StopArgs == {N(5), N(10), N(85), N(95), N(100), N(105), N(115)}

StopCall(op, price, stop_loss_price, hit, raised) ==
    [op |-> op, price |-> price, stop_loss_price |-> stop_loss_price,
     stop_before |-> IF pos = <<>> THEN Zero ELSE pos[1].stop_loss_price,
     hit |-> hit, raised |-> raised]

InitStops ==
    /\ cfg = Config(N(1000), Zero, N(1), Zero, Q(1, 100))
    /\ cash = cfg.initial_cash
    /\ positions = <<>>
    /\ \E t \in Sides :
           pos = <<[software_Position([position_type |-> t, amount |-> N(1),
                                       entry_price |-> N(100),
                                       entry_date |-> 0]).obj
                      EXCEPT !.stop_loss_price = IF t = "long" THEN N(90)
                                                 ELSE N(110)]>>
    /\ history = <<>>
    /\ last = [op |-> "init", price |-> Zero, stop_loss_price |-> Zero,
               stop_before |-> Zero, hit |-> FALSE, raised |-> "none"]
    /\ now = 0
    /\ pc = "stops"
    /\ signals = <<>>
    /\ transactions = <<>>
    /\ equity_curve = <<>>
    /\ dates = <<>>

UpdateTrailingStopCall(price, stop_loss_price) ==
    /\ pc = "stops"
    /\ now < MaxCalls + 1
    /\ ~pos[1].closed
    /\ now' = now + 1
    /\ pos' = <<update_trailing_stop(pos[1], price, stop_loss_price)>>
    /\ last' = StopCall("update_trailing_stop", price, stop_loss_price,
                        check_stop_loss(pos'[1], price), "none")
    /\ UNCHANGED <<cfg, cash, positions, history, pc, signals, transactions,
                   equity_curve, dates>>

\* update_positions: a position whose stop is hit at the price is closed
StopLossCloseCall ==
    /\ pc = "stops"
    /\ last.op = "update_trailing_stop"
    /\ last.hit
    /\ ~pos[1].closed
    /\ now' = now + 1
    /\ \E r \in {software_Position_close(pos[1], last.price, now + 1)} :
           /\ pos' = <<r.obj>>
           /\ last' = StopCall("Position.close", last.price, Zero, FALSE,
                               r.raised)
    /\ UNCHANGED <<cfg, cash, positions, history, pc, signals, transactions,
                   equity_curve, dates>>

NextStops ==
    \/ \E x \in StopPrices, a \in StopArgs : UpdateTrailingStopCall(x, a)
    \/ StopLossCloseCall

SpecStops == InitStops /\ [][NextStops]_vars

\* C13: from the stop set at open until the position is closed, no call
\* lowers the stop_loss_price of a long or raises that of a short.
C13_StopNeverLoosens ==
    [][/\ pos[1].type = "long" =>
              RGe(pos'[1].stop_loss_price, pos[1].stop_loss_price)
       /\ pos[1].type = "short" =>
              RLe(pos'[1].stop_loss_price, pos[1].stop_loss_price)]_vars

\* a long whose stop had been raised to 100 keeps it when a lower one is
\* passed
C13_Witness ==
    /\ pc = "stops"
    /\ last.op = "update_trailing_stop"
    /\ pos[1].type = "long"
    /\ last.stop_before = N(100)
    /\ last.stop_loss_price = N(85)
    /\ pos[1].stop_loss_price = N(100)

\* C14 (as claimed): update_trailing_stop(position, price, v) leaves a long
\* with the stop max(old stop, price - 2 * v) and a short with min(old stop,
\* price + 2 * v) when the price has moved favourably since entry, and
\* leaves the stop unchanged when it has not.
C14_StopTrailsPriceByTwoUnits ==
    (pc = "stops" /\ last.op = "update_trailing_stop") =>
        /\ (pos[1].type = "long" /\ RGt(last.price, pos[1].entry_price)) =>
               LET trailed == RSub(last.price, RMul(N(2), last.stop_loss_price))
               IN  pos[1].stop_loss_price =
                       IF RGt(trailed, last.stop_before) THEN trailed
                       ELSE last.stop_before
        /\ (pos[1].type = "short" /\ RLt(last.price, pos[1].entry_price)) =>
               LET trailed == RAdd(last.price, RMul(N(2), last.stop_loss_price))
               IN  pos[1].stop_loss_price =
                       IF RLt(trailed, last.stop_before) THEN trailed
                       ELSE last.stop_before
        /\ (pos[1].type = "long" /\ RLe(last.price, pos[1].entry_price)) =>
               pos[1].stop_loss_price = last.stop_before
        /\ (pos[1].type = "short" /\ RGe(last.price, pos[1].entry_price)) =>
               pos[1].stop_loss_price = last.stop_before

====
